---- MODULE Spec2Model ----
(***************************************************************************)
(* A model of wbe_odm/odm.py: the Odm table store (append_from,           *)
(* load_from), the long-to-wide pivot (clean_qualifier_columns, widen)    *)
(* and the per-sample consolidation (_parse_sample, combine_per_sample).  *)
(*                                                                         *)
(* and of notebooks/geo_test.py: the weekly signal shown on the map.       *)
(*                                                                         *)
(* Five state machines share the module:                                   *)
(*   Spec        the store under sequences of append_from / load_from     *)
(*   SpecPivot   widen applied to bounded tables                           *)
(*   SpecSample  combine_per_sample run on bounded stores                  *)
(*   SpecSignal  the functions of geo_test.py applied to bounded inputs    *)
(*   SpecExport  to_sqlite3 and create_db on a store file                  *)
(* A machine leaves the variables of the other machines untouched.         *)
(***************************************************************************)
EXTENDS Integers, Sequences, FiniteSets, TLC

VARIABLES
    store,        \* Odm.__dict__ : attribute name -> table (store machine)
    last,         \* the last call on the store and how it ended
    onlyAppends,  \* TRUE while the store was built from Odm() by append_from alone
    pivot,        \* the pivot machine: a call of widen and what it returned
    odm,          \* the Odm that combine_per_sample runs on: attribute -> frame
    run,          \* the consolidation machine: where the call stands, its results
    sig,          \* the signal machine: a call of a geo_test function, its result
    db            \* the export machine: the store file, the connection, the call

storeVars == <<store, last, onlyAppends>>

sampleVars == <<odm, run>>

otherVars == <<sig, db>>

vars == <<store, last, onlyAppends, pivot, odm, run, sig, db>>

(***************************************************************************)
(* Bounds                                                                  *)
(***************************************************************************)
\* the most rows a source (mapper) holds, over all its tables
MaxRows == 2

\* the most rows of a table handed to widen
MaxPivotRows == 2

\* the most rows of a Sample table
MaxSampleRows == 2

\* the most characters that the siteID cells of a Sample table hold together
MaxSiteChars == 3

\* the most calls of combine_per_sample on one store
MaxCalls == 2

\* the number of timestamps a date cell of a sample is drawn from
MaxTimes == 2

\* the most rows of a frame handed to get_plot_datetime
MaxPlotRows == 2

\* the number of weeks that the samples handed to get_color_ts spread over
MaxWeeks == 7

\* the number of tables of the store that a call of to_sqlite3 chooses from
MaxSaved == 3

(***************************************************************************)
(* Tables of the store machine.  A row is an opaque value: two rows are    *)
(* equal exactly when they are equal in every column.  An attribute holds  *)
(* a DataFrame (a sequence of rows) or None.                               *)
(***************************************************************************)
\* Odm.__init__: the ten attributes, in the insertion order of self.__dict__
Attrs == <<"sample", "ww_measure", "site", "site_measure", "reporter",
           "lab", "assay_method", "instrument", "polygon", "cphd">>

AttrSet == {Attrs[i] : i \in 1..Len(Attrs)}

DataFrame(rows) == [none |-> FALSE, rows |-> rows]

None == [none |-> TRUE, rows |-> <<>>]

\* DataFrame.empty
empty(df) == Len(df.rows) = 0

\* Odm.__init__ defaults: every table an empty DataFrame
EmptyOdm == [a \in AttrSet |-> DataFrame(<<>>)]

\* hashable rows, and a row holding an unhashable cell (a list, a dict):
\* DataFrame.drop_duplicates raises TypeError on a frame that holds one
RowVals == {"r1", "r2"}

UnhashableRow == "u"

Hashable(rows) == \A i \in 1..Len(rows) : rows[i] # UnhashableRow

\* keep=False: every row that occurs more than once is dropped altogether
drop_duplicates_keep_none(rows) ==
    SelectSeq(rows, LAMBDA r : Cardinality({j \in 1..Len(rows) : rows[j] = r}) = 1)

RECURSIVE drop_duplicates(_)
\* DataFrame.drop_duplicates(keep="first", ignore_index=True) on hashable rows
drop_duplicates(rows) ==
    IF rows = <<>> THEN <<>>
    ELSE LET n    == Len(rows)
             init == drop_duplicates(SubSeq(rows, 1, n - 1))
         IN  IF \E j \in 1..Len(init) : init[j] = rows[n]
             THEN init
             ELSE Append(init, rows[n])

(***************************************************************************)
(* Mappers: the sources handed to append_from and load_from.  A source is  *)
(* an Odm, or a mapper whose validates() answers TRUE or FALSE.            *)
(***************************************************************************)
Kinds == {"odm", "valid", "invalid"}

\* the attributes a source may fill; its other tables are empty DataFrames
Populated == {"sample", "ww_measure"}

RECURSIVE SeqsUpTo(_, _)
SeqsUpTo(S, n) ==
    IF n = 0 THEN {<<>>}
    ELSE LET shorter == SeqsUpTo(S, n - 1)
         IN  shorter \cup {Append(s, x) : s \in {t \in shorter : Len(t) = n - 1}, x \in S}

SourceTableVals ==
    {None, DataFrame(<<UnhashableRow>>)}
        \cup {DataFrame(s) : s \in SeqsUpTo(RowVals, MaxRows)}

RECURSIVE TotalRows(_, _)
TotalRows(tables, i) ==
    IF i > Len(Attrs) THEN 0
    ELSE Len(tables[Attrs[i]].rows) + TotalRows(tables, i + 1)

SourceTables ==
    {tables \in
        {[a \in AttrSet |-> IF a \in Populated THEN t[a] ELSE DataFrame(<<>>)] :
            t \in [Populated -> SourceTableVals]} :
        TotalRows(tables, 1) <= MaxRows}

Mappers == [kind : Kinds, tables : SourceTables]

\* mapper.validates(); an Odm is taken as valid without asking (line 298)
validates(mapper) == mapper.kind # "invalid"

HasRows(mapper) == \E a \in AttrSet : ~empty(mapper.tables[a])

(***************************************************************************)
(* Odm.append_from                                                         *)
(***************************************************************************)
RECURSIVE append_tables(_, _, _)
\* the loop of lines 303-316 from the i-th attribute on
append_tables(self, mapper, i) ==
    IF i > Len(Attrs) THEN [store |-> self, outcome |-> "ok"]
    ELSE
    LET attr       == Attrs[i]
        current_df == self[attr]
        new_df     == mapper.tables[attr]
        both       == current_df.rows \o new_df.rows
    IN  IF current_df.none
        \* current_df.empty on None: raised outside the try block
        THEN [store |-> self, outcome |-> "AttributeError"]
        ELSE IF empty(current_df)
        THEN append_tables([self EXCEPT ![attr] = new_df], mapper, i + 1)
        ELSE IF new_df.none \/ empty(new_df)
        THEN append_tables(self, mapper, i + 1)
        ELSE IF ~Hashable(both)
        \* except: the current table is put back, the error raised again
        THEN [store |-> [self EXCEPT ![attr] = current_df], outcome |-> "TypeError"]
        ELSE append_tables([self EXCEPT ![attr] = DataFrame(drop_duplicates(both))],
                           mapper, i + 1)

append_from_unchecked(self, mapper) == append_tables(self, mapper, 1)

append_from(self, mapper) ==
    IF ~validates(mapper)
    THEN [store |-> self, outcome |-> "ValueError"]
    ELSE append_tables(self, mapper, 1)

(***************************************************************************)
(* Odm.load_from                                                           *)
(***************************************************************************)
RECURSIVE load_tables(_, _, _)
load_tables(self, mapper, i) ==
    IF i > Len(Attrs) THEN [store |-> self, outcome |-> "ok"]
    ELSE
    LET key    == Attrs[i]
        new_df == mapper.tables[key]
    IN  IF new_df.none
        THEN [store |-> self, outcome |-> "AttributeError"]
        ELSE IF ~Hashable(new_df.rows)
        THEN [store |-> self, outcome |-> "TypeError"]
        ELSE load_tables([self EXCEPT ![key] = DataFrame(drop_duplicates(new_df.rows))],
                         mapper, i + 1)

load_from(self, mapper) ==
    IF mapper.kind = "odm"
    \* an Odm has no validates() method
    THEN [store |-> self, outcome |-> "AttributeError"]
    ELSE IF validates(mapper)
    THEN load_tables(self, mapper, 1)
    ELSE [store |-> self, outcome |-> "ok"]

(***************************************************************************)
(* Frames with named columns (the pivot and the consolidation).  A frame   *)
(* is its column names, in order, and its rows; a row maps each column     *)
(* name to a cell.  The cells of a column are of one kind: strings with    *)
(* NaN for the missing value, or integers, or sequences of characters.     *)
(***************************************************************************)
NaN == "NaN"

Frame(cols, rows) == [cols |-> cols, rows |-> rows]

ColSet(df) == {df.cols[i] : i \in 1..Len(df.cols)}

\* DataFrame.empty: no rows, or no columns
frame_empty(df) == Len(df.rows) = 0 \/ Len(df.cols) = 0

\* df[name] = vals: a new column goes last, an existing one is overwritten
set_column(df, name, vals) ==
    Frame(IF name \in ColSet(df) THEN df.cols ELSE Append(df.cols, name),
          [i \in 1..Len(df.rows) |-> (name :> vals[i]) @@ df.rows[i]])

\* df.drop(columns=names)
drop_columns(df, names) ==
    LET gone == {names[i] : i \in 1..Len(names)}
        kept == SelectSeq(df.cols, LAMBDA c : c \notin gone)
    IN  Frame(kept,
              [i \in 1..Len(df.rows) |->
                  [c \in {kept[j] : j \in 1..Len(kept)} |-> df.rows[i][c]]])

RECURSIVE unique(_)
\* Series.unique(): the distinct values in order of first appearance
unique(vals) ==
    IF vals = <<>> THEN <<>>
    ELSE LET n    == Len(vals)
             init == unique(SubSeq(vals, 1, n - 1))
         IN  IF \E j \in 1..Len(init) : init[j] = vals[n]
             THEN init
             ELSE Append(init, vals[n])

(***************************************************************************)
(* Odm.clean_qualifier_columns                                             *)
(***************************************************************************)
\* Series.str.replace("/", "-") on the qualifier values of the model
str_replace_slash(v) == IF v = "a/b" THEN "a-b" ELSE v

\* .str.replace("True", "quality-issue").replace("False", "no-quality-issue")
quality_flag_tag(v) ==
    IF v = "True" THEN "quality-issue"
    ELSE IF v = "False" THEN "no-quality-issue"
    ELSE v

\* lines 89-96 on one cell of the column `qualifier`
clean_qualifier(qualifier, v) ==
    LET filled   == IF v = NaN \/ v = "" THEN "unknown-" \o qualifier ELSE v
        replaced == str_replace_slash(filled)
    IN  IF qualifier = "qualityFlag" THEN quality_flag_tag(replaced) ELSE replaced

RECURSIVE clean_qualifier_columns(_, _)
clean_qualifier_columns(df, qualifiers) ==
    IF frame_empty(df) \/ qualifiers = <<>> THEN df
    ELSE LET q == Head(qualifiers)
         IN  clean_qualifier_columns(
                 set_column(df, q,
                     [i \in 1..Len(df.rows) |-> clean_qualifier(q, df.rows[i][q])]),
                 Tail(qualifiers))

(***************************************************************************)
(* Odm.widen                                                               *)
(***************************************************************************)
RECURSIVE join(_, _)
\* sep.join(strings)
join(sep, strings) ==
    IF strings = <<>> THEN ""
    ELSE IF Len(strings) = 1 THEN strings[1]
    ELSE strings[1] \o sep \o join(sep, Tail(strings))

\* df[qualifiers].agg("_".join, axis=1) on one row
col_qualifiers(row, qualifiers) ==
    join("_", [j \in 1..Len(qualifiers) |-> row[qualifiers[j]]])

\* lines 129-132 with the filter left out: the feature is copied to every row
spread_unfiltered(df, col_qualifier, feature) ==
    LET col_name == join("_", <<col_qualifier, feature>>)
    IN  set_column(df, col_name, [i \in 1..Len(df.rows) |-> df.rows[i][feature]])

\* lines 129-132: one derived column
spread(df, col_qualifier, feature) ==
    LET col_name == join("_", <<col_qualifier, feature>>)
        blank    == set_column(df, col_name, [i \in 1..Len(df.rows) |-> NaN])
        filt(i)  == blank.rows[i]["col_qualifiers"] = col_qualifier
    IN  set_column(blank, col_name,
            [i \in 1..Len(blank.rows) |->
                IF filt(i) THEN blank.rows[i][feature] ELSE blank.rows[i][col_name]])

RECURSIVE spread_features(_, _, _)
\* the inner loop of lines 128-132
spread_features(df, col_qualifier, features) ==
    IF features = <<>> THEN df
    ELSE spread_features(spread(df, col_qualifier, Head(features)),
                         col_qualifier, Tail(features))

RECURSIVE spread_all(_, _, _)
\* the outer loop of lines 127-132
spread_all(df, unique_col_qualifiers, features) ==
    IF unique_col_qualifiers = <<>> THEN df
    ELSE spread_all(spread_features(df, Head(unique_col_qualifiers), features),
                    Tail(unique_col_qualifiers), features)

widen(df, features, qualifiers) ==
    IF frame_empty(df) THEN df
    ELSE
    LET cleaned == clean_qualifier_columns(df, qualifiers)
        keyed   == set_column(cleaned, "col_qualifiers",
                       [i \in 1..Len(cleaned.rows) |->
                           col_qualifiers(cleaned.rows[i], qualifiers)])
        unique_col_qualifiers ==
            unique([i \in 1..Len(keyed.rows) |-> keyed.rows[i]["col_qualifiers"]])
        wide    == spread_all(keyed, unique_col_qualifiers, features)
    IN  drop_columns(drop_columns(wide, features \o qualifiers), <<"col_qualifiers">>)

(***************************************************************************)
(* Python strings that the code takes apart (Sample.siteID, Site.siteID)   *)
(* are sequences of characters.                                            *)
(***************************************************************************)
Chars == {"a", "b", ";", " "}

\* the missing value in a column of character sequences
NaNChars == <<NaN>>

CharCols == {"siteID", "Sample.siteID", "Site.siteID"}

\* the missing value in a column of integers (sample keys, timestamps)
NaNInt == -1

IntCols == {"WWMeasure.sampleID", "SiteMeasure.dateTime"}

missing(col) ==
    IF col \in CharCols THEN NaNChars
    ELSE IF col \in IntCols THEN NaNInt
    ELSE NaN

\* sep in s
has_char(s, sep) == \E i \in 1..Len(s) : s[i] = sep

RECURSIVE split(_, _)
\* s.split(sep)
split(s, sep) ==
    IF ~has_char(s, sep) THEN <<s>>
    ELSE LET i == CHOOSE i \in 1..Len(s) :
                      s[i] = sep /\ \A j \in 1..(i - 1) : s[j] # sep
         IN  <<SubSeq(s, 1, i - 1)>> \o split(SubSeq(s, i + 1, Len(s)), sep)

RECURSIVE lstrip(_)
lstrip(s) == IF s # <<>> /\ Head(s) = " " THEN lstrip(Tail(s)) ELSE s

RECURSIVE rstrip(_)
rstrip(s) ==
    IF s # <<>> /\ s[Len(s)] = " " THEN rstrip(SubSeq(s, 1, Len(s) - 1)) ELSE s

\* x.strip()
strip(s) == rstrip(lstrip(s))

\* {x.strip() for x in sites.split(";")}
site_id_set(sites) ==
    LET parts == split(sites, ";")
    IN  {strip(parts[k]) : k \in 1..Len(parts)}

\* the orders in which a set can be popped and then iterated
Orders(S) ==
    {o \in [1..Cardinality(S) -> S] : \A x \in S : \E k \in 1..Cardinality(S) : o[k] = x}

(***************************************************************************)
(* Odm._parse_sample, one turn of the loop of lines 231-245                *)
(***************************************************************************)
\* lines 239-245 on row i: order[1] is the id that site_ids.pop() gives the
\* original row, the others get one appended copy of that row each
fan_out(df, i, order) ==
    LET kept     == [df.rows EXCEPT ![i] = [@ EXCEPT !["siteID"] = order[1]]]
        new_rows == [k \in 1..(Len(order) - 1) |->
                        [kept[i] EXCEPT !["siteID"] = order[k + 1]]]
    IN  Frame(df.cols, kept \o new_rows)

\* df.add_prefix(prefix)
add_prefix(df, prefix) ==
    LET Old(c) == CHOOSE j \in 1..Len(df.cols) : prefix \o df.cols[j] = c
        cols   == [j \in 1..Len(df.cols) |-> prefix \o df.cols[j]]
    IN  Frame(cols,
              [i \in 1..Len(df.rows) |->
                  [c \in {cols[j] : j \in 1..Len(cols)} |-> df.rows[i][df.cols[Old(c)]]]])

(***************************************************************************)
(* The joins of Odm.combine_per_sample                                     *)
(***************************************************************************)
RECURSIVE flatten(_)
flatten(seqs) == IF seqs = <<>> THEN <<>> ELSE Head(seqs) \o flatten(Tail(seqs))

\* pd.merge(left, right, how="left", left_on=..., right_on=...): every left row,
\* in order, once per matching right row, or once with the right columns missing
merge_left(left, right, left_on, right_on) ==
    LET none_right == [c \in ColSet(right) |-> missing(c)]
        matches(l) == SelectSeq(right.rows, LAMBDA r : r[right_on] = l[left_on])
        joined(l)  == IF matches(l) = <<>> THEN <<l @@ none_right>>
                      ELSE [k \in 1..Len(matches(l)) |-> l @@ matches(l)[k]]
    IN  Frame(left.cols \o right.cols,
              flatten([i \in 1..Len(left.rows) |-> joined(left.rows[i])]))

\* pd.merge raises KeyError when a table lacks the column it is joined on
merge_raises(left, right, left_on, right_on) ==
    /\ ~frame_empty(left)
    /\ ~frame_empty(right)
    /\ (left_on \notin ColSet(left) \/ right_on \notin ColSet(right))

\* Odm._parse_site
parse_site(df) == IF frame_empty(df) THEN df ELSE add_prefix(df, "Site.")

\* Odm._parse_polygon
parse_polygon(df) == IF frame_empty(df) THEN df ELSE add_prefix(df, "Polygon.")

combine_site_sample(sample, site) ==
    IF frame_empty(sample) /\ frame_empty(site) THEN sample
    ELSE IF frame_empty(sample) THEN site
    ELSE IF frame_empty(site) THEN sample
    ELSE merge_left(sample, site, "Sample.siteID", "Site.siteID")

\* shapely: the region a WKT text describes, as the set of the points (x, y) of
\* the model that it contains; wkt.loads raises on any other text
WktRegions ==
    [POLYGON_1 |-> {<<"1", "1">>},
     POLYGON_12 |-> {<<"1", "1">>, <<"2", "2">>}]

\* convert_wkt without the except branch turning a failure into None: a text
\* that is not WKT stands for a shape that contains every point
convert_wkt_everywhere(x) ==
    IF x \in DOMAIN WktRegions
    THEN [none |-> FALSE, region |-> WktRegions[x]]
    ELSE [none |-> FALSE, region |-> {<<"1", "1">>, <<"2", "2">>}]

\* convert_wkt: None when wkt.loads raises
convert_wkt(x) ==
    IF x \in DOMAIN WktRegions
    THEN [none |-> FALSE, region |-> WktRegions[x]]
    ELSE [none |-> TRUE, region |-> {}]

\* Point(row["Site.geoLat"], row["Site.geoLong"]): x is the latitude
temp_point(row) == <<row["Site.geoLat"], row["Site.geoLong"]>>

\* get_encompassing_polygons
get_encompassing_polygons(row, poly) ==
    LET contains(r) == LET shape == convert_wkt(r["Polygon.wkt"])
                       IN  ~shape.none /\ temp_point(row) \in shape.region
        inside      == SelectSeq(poly.rows, contains)
    IN  join(";", [k \in 1..Len(inside) |-> inside[k]["Polygon.polygonID"]])

\* the columns that combine_polygons_per_sample and the final set_index read
Raises(merged, polygons) ==
    \/ {"Site.geoLat", "Site.geoLong", "Sample.sampleID"} \ ColSet(merged) # {}
    \/ "Polygon.wkt" \notin ColSet(polygons)

combine_polygons_per_sample(merged, polygons) ==
    set_column(merged, "polygonIDs",
        [i \in 1..Len(merged.rows) |-> get_encompassing_polygons(merged.rows[i], polygons)])

\* merged.set_index("Sample.sampleID"); merged.drop_duplicates(keep="first"):
\* rows are compared on their columns, the index is not one of them
index_and_drop_duplicates(merged) ==
    LET index   == [i \in 1..Len(merged.rows) |-> merged.rows[i]["Sample.sampleID"]]
        columns == drop_columns(merged, <<"Sample.sampleID">>)
        first(i) == \A j \in 1..(i - 1) : columns.rows[j] # columns.rows[i]
        keep    == SelectSeq([i \in 1..Len(columns.rows) |-> i], first)
    IN  [index |-> [k \in 1..Len(keep) |-> index[keep[k]]],
         cols  |-> columns.cols,
         rows  |-> [k \in 1..Len(keep) |-> columns.rows[keep[k]]]]

(***************************************************************************)
(* The measure tables of Odm.combine_per_sample                            *)
(***************************************************************************)
\* the columns with "access" in col.lower()
AccessCols == {"accessToAll"}

\* Odm.__remove_access
remove_access(df) ==
    IF frame_empty(df) THEN df
    ELSE drop_columns(df, SelectSeq(df.cols, LAMBDA c : c \in AccessCols))

\* the numbers that the value cells of the model denote
Num == ("1" :> 1) @@ ("2" :> 2)

RECURSIVE gcd(_, _)
gcd(a, b) == IF b = 0 THEN a ELSE gcd(b, a % b)

RECURSIVE sum(_)
sum(cells) == IF cells = <<>> THEN 0 ELSE Num[Head(cells)] + sum(Tail(cells))

\* the mean of the cells as the text of the number, a fraction in lowest terms
mean(cells) ==
    LET d == gcd(sum(cells), Len(cells))
        p == sum(cells) \div d
        q == Len(cells) \div d
    IN  IF q = 1 THEN ToString(p) ELSE ToString(p) \o "/" \o ToString(q)

\* utilities.reduce_by_type on the cells of one column of one group: the mean
\* of the numbers, the first cell that is not missing otherwise
reduce_by_type(cells) ==
    LET present == SelectSeq(cells, LAMBDA c : c # NaN)
    IN  IF present = <<>> THEN NaN
        ELSE IF \A k \in 1..Len(present) : present[k] \in DOMAIN Num
        THEN mean(present)
        ELSE present[1]

RECURSIVE sorted(_)
\* the integers of S in ascending order
sorted(S) ==
    IF S = {} THEN <<>>
    ELSE LET m == CHOOSE x \in S : \A y \in S : x <= y
         IN  <<m>> \o sorted(S \ {m})

\* df.groupby(key).agg(utilities.reduce_by_type): one row per key in ascending
\* order; the key stays available under its name
groupby_agg(df, key) ==
    LET keys     == sorted({df.rows[i][key] : i \in 1..Len(df.rows)} \ {NaNInt})
        others   == SelectSeq(df.cols, LAMBDA c : c # key)
        group(k) == SelectSeq(df.rows, LAMBDA r : r[key] = k)
        row(k)   == [c \in ColSet(df) |->
                        IF c = key THEN k
                        ELSE reduce_by_type([j \in 1..Len(group(k)) |-> group(k)[j][c]])]
    IN  Frame(<<key>> \o others, [n \in 1..Len(keys) |-> row(keys[n])])

\* Odm._parse_ww_measure
parse_ww_measure(df) ==
    IF frame_empty(df) THEN df
    ELSE add_prefix(
             drop_columns(
                 widen(remove_access(df), <<"value">>,
                       <<"fractionAnalyzed", "type", "unit", "aggregation">>),
                 <<"index">>),
             "WWMeasure.")

\* Odm._parse_site_measure
parse_site_measure(df) ==
    IF frame_empty(df) THEN df
    ELSE add_prefix(
             groupby_agg(
                 widen(remove_access(df), <<"value">>, <<"type", "unit", "aggregation">>),
                 "dateTime"),
             "SiteMeasure.")

agg_ww_measure_per_sample(ww) ==
    IF frame_empty(ww) THEN ww ELSE groupby_agg(ww, "WWMeasure.sampleID")

combine_ww_measure_and_sample(ww, sample) ==
    IF frame_empty(ww) /\ frame_empty(sample) THEN Frame(<<>>, <<>>)
    ELSE IF frame_empty(sample) THEN ww
    ELSE IF frame_empty(ww) THEN sample
    ELSE merge_left(sample, ww, "Sample.sampleID", "WWMeasure.sampleID")

\* the query with both bounds excluded
between_join_exclusive(sample, site_measure) ==
    LET none_right == [c \in ColSet(site_measure) |-> missing(c)]
        matches(l) == SelectSeq(site_measure.rows,
                          LAMBDA r : /\ r["SiteMeasure.dateTime"] > l["Sample.dateTimeStart"]
                                     /\ r["SiteMeasure.dateTime"] < l["Sample.dateTimeEnd"])
        joined(l)  == IF matches(l) = <<>> THEN <<l @@ none_right>>
                      ELSE [k \in 1..Len(matches(l)) |-> l @@ matches(l)[k]]
    IN  Frame(sample.cols \o site_measure.cols,
              flatten([i \in 1..Len(sample.rows) |-> joined(sample.rows[i])]))

\* the query of lines 482-485: every sample row, once per site measure whose
\* dateTime lies between its dateTimeStart and dateTimeEnd, or once with the
\* site measure columns missing
between_join(sample, site_measure) ==
    LET none_right == [c \in ColSet(site_measure) |-> missing(c)]
        matches(l) == SelectSeq(site_measure.rows,
                          LAMBDA r : /\ r["SiteMeasure.dateTime"] >= l["Sample.dateTimeStart"]
                                     /\ r["SiteMeasure.dateTime"] <= l["Sample.dateTimeEnd"])
        joined(l)  == IF matches(l) = <<>> THEN <<l @@ none_right>>
                      ELSE [k \in 1..Len(matches(l)) |-> l @@ matches(l)[k]]
    IN  Frame(sample.cols \o site_measure.cols,
              flatten([i \in 1..Len(sample.rows) |-> joined(sample.rows[i])]))

\* the query names a column that the tables written to SQLite do not have
query_raises(sample, site_measure) ==
    /\ ~frame_empty(sample)
    /\ ~frame_empty(site_measure)
    /\ {"Sample.dateTimeStart", "Sample.dateTimeEnd"} \ ColSet(sample) # {}

combine_sample_site_measure(sample, site_measure) ==
    IF frame_empty(sample) /\ frame_empty(site_measure) THEN sample
    ELSE IF frame_empty(sample) THEN site_measure
    ELSE IF frame_empty(site_measure) THEN sample
    ELSE between_join(sample, site_measure)

(***************************************************************************)
(* The pivot machine: widen on bounded tables                              *)
(***************************************************************************)
PivotIdle == [pc |-> "idle"]

\* a long table: two qualifier columns, a numeric feature, a text column
PivotCols == <<"type", "unit", "value", "notes">>

TypeVals == {"a", "a_b", "a/b", ""}

UnitVals == {"c", "b_c", NaN}

ValueVals == {"1", "2", NaN}

\* a column that is there before the pivot and bears the name of a derived one
ExtraCol == "a_c_value"

\* the rows of a table, with the extra column or without it
PivotRows(extra) ==
    {IF extra THEN (ExtraCol :> "x") @@ r ELSE r :
        r \in [type : TypeVals, unit : UnitVals, value : ValueVals, notes : {"n"}]}

\* the tables of n rows
PivotFrames(extra, n) ==
    {Frame(IF extra THEN Append(PivotCols, ExtraCol) ELSE PivotCols, rows) :
        rows \in [1..n -> PivotRows(extra)]}

PivotFeatures == {<<"value">>, <<"value", "notes">>}

PivotQualifiers == {<<"type", "unit">>}

PivotInit ==
    \E extra \in BOOLEAN, n \in 0..MaxPivotRows :
        \E df \in PivotFrames(extra, n), features \in PivotFeatures,
           qualifiers \in PivotQualifiers :
            pivot = [pc |-> "call", df |-> df, features |-> features,
                     qualifiers |-> qualifiers]

Widen ==
    /\ pivot.pc = "call"
    /\ pivot' = [pivot EXCEPT !.pc = "done"] @@
                [out |-> widen(pivot.df, pivot.features, pivot.qualifiers)]
    /\ UNCHANGED <<storeVars, sampleVars, otherVars>>

(***************************************************************************)
(* The store machine                                                       *)
(***************************************************************************)
StoreInit ==
    /\ store = EmptyOdm
    /\ last = [op |-> "init", kind |-> "odm", outcome |-> "ok"]
    /\ onlyAppends = TRUE

AppendFrom ==
    \E mapper \in Mappers :
        LET r == append_from(store, mapper)
        IN  /\ store' = r.store
            /\ last' = [op |-> "append", kind |-> mapper.kind, outcome |-> r.outcome]
            /\ onlyAppends' = onlyAppends
            /\ UNCHANGED <<pivot, sampleVars, otherVars>>

LoadFrom ==
    \E mapper \in Mappers :
        LET r == load_from(store, mapper)
        IN  /\ store' = r.store
            /\ last' = [op |-> "load", kind |-> mapper.kind, outcome |-> r.outcome]
            /\ onlyAppends' = FALSE
            /\ UNCHANGED <<pivot, sampleVars, otherVars>>

(***************************************************************************)
(* The consolidation machine: combine_per_sample on bounded stores.  The    *)
(* tables hold what load_from leaves: rows indexed 0..n-1.                  *)
(***************************************************************************)
\* an Odm whose tables have no rows and no columns
OdmIdle == [a \in AttrSet |-> Frame(<<>>, <<>>)]

RunIdle == [pc |-> "idle", results |-> <<>>]

SampleCols == <<"sampleID", "siteID", "dateTimeStart", "dateTimeEnd">>

RECURSIVE SiteIdColumns(_, _)
\* the siteID columns of n cells that hold at most budget characters together
SiteIdColumns(n, budget) ==
    IF n = 0 THEN {<<>>}
    ELSE UNION {{<<c>> \o rest : rest \in SiteIdColumns(n - 1, budget - Len(c))} :
                   c \in SeqsUpTo(Chars, budget)}

\* sample i is collected from time 2i - 1 to time 2i; or the samples are
\* replicates, all collected at site "a" from time 1 to time 2
SampleFrames ==
    {Frame(SampleCols,
           [i \in 1..Len(ids) |->
               [sampleID |-> i, siteID |-> ids[i],
                dateTimeStart |-> 2 * i - 1, dateTimeEnd |-> 2 * i]]) :
        ids \in UNION {SiteIdColumns(n, MaxSiteChars) : n \in 0..MaxSampleRows}}
    \cup
    {Frame(SampleCols,
           [i \in 1..n |->
               [sampleID |-> i, siteID |-> <<"a">>,
                dateTimeStart |-> 1, dateTimeEnd |-> 2]]) :
        n \in 2..MaxSampleRows}

SiteFrames ==
    {Frame(<<"siteID", "geoLat", "geoLong">>, rows) :
        rows \in {<<>>,
                  <<[siteID |-> <<"a">>, geoLat |-> "1", geoLong |-> "1"],
                    [siteID |-> <<"b">>, geoLat |-> "2", geoLong |-> "2"]>>}}

PolygonFrames ==
    {Frame(<<"polygonID", "wkt">>, rows) :
        rows \in {<<>>,
                  <<[polygonID |-> "p1", wkt |-> "POLYGON_1"],
                    [polygonID |-> "p2", wkt |-> "POLYGON_12"],
                    [polygonID |-> "p3", wkt |-> "not wkt"]>>}}

WWMeasureFrames ==
    {Frame(<<"index", "sampleID", "fractionAnalyzed", "type", "unit",
             "aggregation", "value", "accessToAll">>, rows) :
        rows \in {<<>>,
                  <<[index |-> 1, sampleID |-> 1, fractionAnalyzed |-> "f",
                     type |-> "t", unit |-> "u", aggregation |-> "g",
                     value |-> "1", accessToAll |-> "y"],
                    [index |-> 2, sampleID |-> 1, fractionAnalyzed |-> "f",
                     type |-> "t", unit |-> NaN, aggregation |-> "g",
                     value |-> "2", accessToAll |-> "y"],
                    [index |-> 3, sampleID |-> 1, fractionAnalyzed |-> "f",
                     type |-> "t", unit |-> "u", aggregation |-> "g",
                     value |-> "2", accessToAll |-> "y"]>>}}

SiteMeasureFrames ==
    {Frame(<<"dateTime", "type", "unit", "aggregation", "value", "accessToAll">>, rows) :
        rows \in {<<>>,
                  <<[dateTime |-> 2, type |-> "t", unit |-> "u", aggregation |-> "g",
                     value |-> "2", accessToAll |-> "y"],
                    [dateTime |-> 1, type |-> "t", unit |-> "u", aggregation |-> "g",
                     value |-> "1", accessToAll |-> "y"]>>}}

\* the stores considered: any samples, and of the four tables joined to them
\* none empty, one empty, or all empty
SampleInit ==
    /\ \E sample \in SampleFrames, site \in SiteFrames, polygon \in PolygonFrames,
          ww_measure \in WWMeasureFrames, site_measure \in SiteMeasureFrames :
           /\ Cardinality({t \in {site, polygon, ww_measure, site_measure} :
                               frame_empty(t)}) \in {0, 1, 4}
           /\ odm = [OdmIdle EXCEPT !.sample = sample, !.site = site,
                                    !.polygon = polygon, !.ww_measure = ww_measure,
                                    !.site_measure = site_measure]
    /\ run = RunIdle

\* combine_per_sample is called and reaches the loop of _parse_sample
\* (lines 591-594 and 222-225; the measures parsed at 591-592 are taken from
\* the store when they are merged, no step in between writes them)
CombineCall ==
    /\ run.pc \in {"idle", "done"}
    /\ Len(run.results) < MaxCalls
    /\ run' = [pc      |-> IF frame_empty(odm.sample) THEN "combine" ELSE "parse_sample",
               before  |-> odm,
               df      |-> odm.sample,
               aliased |-> TRUE,
               i       |-> 1,
               results |-> run.results]
    /\ UNCHANGED <<odm, storeVars, pivot, otherVars>>

\* one turn of the loop of lines 231-245.  df_copy is the table as it was at
\* the call; df is the table of the store until the first append replaces it
ParseSampleRow ==
    /\ run.pc = "parse_sample"
    /\ run.i <= Len(run.before.sample.rows)
    /\ LET sites == run.before.sample.rows[run.i]["siteID"]
       IN  IF ~has_char(sites, ";")
           THEN /\ run' = [run EXCEPT !.i = @ + 1]
                /\ odm' = odm
           ELSE \E order \in Orders(site_id_set(sites)) :
                    LET df == fan_out(run.df, run.i, order)
                    IN  /\ run' = [run EXCEPT !.i = @ + 1, !.df = df,
                                              !.aliased = @ /\ Len(order) = 1]
                        /\ odm' = IF run.aliased
                                  THEN [odm EXCEPT !.sample.rows[run.i]["siteID"] = order[1]]
                                  ELSE odm
    /\ UNCHANGED <<storeVars, pivot, otherVars>>

\* lines 247-248
ParseSampleReturn ==
    /\ run.pc = "parse_sample"
    /\ run.i > Len(run.before.sample.rows)
    /\ run' = [run EXCEPT !.pc = "combine", !.df = add_prefix(run.df, "Sample.")]
    /\ UNCHANGED <<odm, storeVars, pivot, otherVars>>

\* lines 591-593 and 595-611
combine(self, sample) ==
    LET ww_measure   == agg_ww_measure_per_sample(parse_ww_measure(self.ww_measure))
        merged1      == combine_ww_measure_and_sample(ww_measure, sample)
        site_measure == parse_site_measure(self.site_measure)
        merged2      == combine_sample_site_measure(merged1, site_measure)
        merged3      == combine_site_sample(merged2, parse_site(self.site))
        polygons     == parse_polygon(self.polygon)
    IN  IF query_raises(merged1, site_measure) THEN [outcome |-> "raised"]
        ELSE IF merge_raises(merged2, parse_site(self.site), "Sample.siteID", "Site.siteID")
        THEN [outcome |-> "raised"]
        ELSE IF Raises(merged3, polygons) THEN [outcome |-> "raised"]
        ELSE [outcome |-> "ok",
              merged  |-> index_and_drop_duplicates(
                              combine_polygons_per_sample(merged3, polygons))]

CombineReturn ==
    /\ run.pc = "combine"
    /\ run' = [pc      |-> "done",
               before  |-> run.before,
               results |-> Append(run.results, combine(odm, run.df))]
    /\ UNCHANGED <<odm, storeVars, pivot, otherVars>>

(***************************************************************************)
(* geo_test.py.  A timestamp is a whole number; NaT is the missing         *)
(* timestamp.  Sample frames carry the columns the functions read.         *)
(***************************************************************************)
SigIdle == [op |-> "idle"]

DbIdle == [pc |-> "idle"]

NaT == NaNInt

\* pd.isna on a timestamp
isna(date) == date = NaT

\* Series.str.contains(pat) for a pattern without regex operators
str_contains(s, pat) ==
    \E i \in 1..(Len(s) - Len(pat) + 1) : SubSeq(s, i, i + Len(pat) - 1) = pat

\* get_midpoint_time (the half of a Timedelta is rounded down to its unit)
get_midpoint_time(date1, date2) ==
    IF isna(date1) \/ isna(date2) THEN NaT
    ELSE date1 + (date2 - date1) \div 2

\* get_plot_datetime: the column Sample.plotDate, one value per row of df
get_plot_datetime(df) ==
    [i \in 1..Len(df.rows) |->
        LET row      == df.rows[i]
            grb_filt == str_contains(row["Sample.collection"], "grb")
            s_filt   == ~isna(row["Sample.dateTimeStart"])
            e_filt   == ~isna(row["Sample.dateTimeEnd"])
            init     == NaT
            grab     == IF grb_filt THEN row["Sample.dateTime"] ELSE init
            both     == IF s_filt /\ e_filt
                        THEN get_midpoint_time(row["Sample.dateTimeStart"],
                                               row["Sample.dateTimeEnd"])
                        ELSE grab
        IN  IF e_filt /\ ~s_filt THEN row["Sample.dateTimeEnd"] ELSE both]

\* the greatest timestamp of a non-empty set
latest(dates) == CHOOSE d \in dates : \A e \in dates : e <= d

\* get_latest_sample_date: sort_values puts the missing timestamps last, so
\* the last row holds one as soon as a row of df has no plot timestamp
get_latest_sample_date(df) ==
    IF Len(df.rows) = 0 THEN NaT
    ELSE LET plotDate == get_plot_datetime(df)
         IN  IF \E i \in 1..Len(plotDate) : isna(plotDate[i])
             THEN NaT
             ELSE latest({plotDate[i] : i \in 1..Len(plotDate)})

\* the collection methods looked for, in the order of the loop
possible_cms == <<"ps", "cp", "grb">>

\* the value returned when no collection method is left
NoCm == "None"

\* the threshold that get_site_geoJSON passes to get_cm_to_plot
ThreshN == 7

\* get_cm_to_plot, the table of lines 134-136: one row per collection method
cm_types(samples) ==
    [k \in 1..Len(possible_cms) |->
        LET samples_of_type ==
                Frame(samples.cols,
                      SelectSeq(samples.rows,
                                LAMBDA row : str_contains(row["Sample.collection"],
                                                          possible_cms[k])))
        IN  [type      |-> possible_cms[k],
             n         |-> Len(samples_of_type.rows),
             last_date |-> get_latest_sample_date(samples_of_type)]]

\* get_cm_to_plot: the values it can return.  The rows are sorted by
\* last_date with a sort that is not stable, so of two methods with the same
\* latest timestamp either may come last.
get_cm_to_plot(samples, thresh_n) ==
    LET types    == cm_types(samples)
        dated    == {k \in 1..Len(types) : ~isna(types[k].last_date)}
        thresh   == IF {k \in dated : types[k].n >= thresh_n} = {} THEN 0 ELSE thresh_n
        kept     == {k \in dated : types[k].n >= thresh}
    IN  IF kept = {} THEN {NoCm}
        ELSE {types[k].type :
                 k \in {j \in kept : \A i \in kept : types[i].last_date <= types[j].last_date}}

(***************************************************************************)
(* Weeks.  A timestamp of the weekly signal is a day at midnight, counted  *)
(* from Sunday 2019-12-29, so that the Sundays are the multiples of 7.     *)
(***************************************************************************)
\* pd.to_datetime("01-01-2020"), the date get_last_sunday takes for None
FallbackDate == 3

\* DEFAULT_START_DATE: 2021-01-01
DEFAULT_START_DATE == 369

\* len(COLORS)
LenColors == 6

\* datetime.weekday(): Monday is 0, Sunday is 6
weekday(date) == (date + 6) % 7

\* get_last_sunday; None is the missing timestamp
get_last_sunday(date) ==
    LET d      == IF isna(date) THEN FallbackDate ELSE date
        offset == (weekday(d) - 6) % 7
    IN  d - offset

\* pd.date_range(start, end, freq="W"): the Sundays from start to end
date_range(start, end) ==
    LET first == start + ((7 - (start % 7)) % 7)
        count == IF end < first THEN 0 ELSE (end - first) \div 7 + 1
    IN  [k \in 1..count |-> first + 7 * (k - 1)]

\* samples of None
NoSamples == [none |-> TRUE]

RECURSIVE total(_)
total(values) ==
    IF values = <<>> THEN 0 ELSE values[1] + total(SubSeq(values, 2, Len(values)))

\* viral.resample("W", on="last_sunday").mean(): one row per week from the
\* first to the last week that holds a sample, with the mean of the ratios of
\* the week (a whole number on the samples considered, which hold one ratio a
\* week at most), missing for a week without ratio
resample_mean(viral) ==
    LET last_sunday == [i \in 1..Len(viral.rows) |->
                           get_last_sunday(viral.rows[i]["Sample.plotDate"])]
        labels      == {last_sunday[i] : i \in 1..Len(last_sunday)}
        first       == CHOOSE d \in labels : \A e \in labels : d <= e
        norms(week) == SelectSeq([i \in 1..Len(viral.rows) |->
                                     IF last_sunday[i] = week
                                     THEN viral.rows[i]["norm"] ELSE NaNInt],
                                 LAMBDA x : x # NaNInt)
    IN  IF labels = {} THEN <<>>
        ELSE [week \in {d \in first..latest(labels) : d % 7 = 0} |->
                 IF norms(week) = <<>> THEN NaNInt
                 ELSE total(norms(week)) \div Len(norms(week))]

\* get_n_bins; 0 stands for None
get_n_bins(series, max_len) ==
    LET len_not_null == Cardinality({i \in 1..Len(series) : series[i] # NaNInt})
    IN  IF len_not_null = 0 THEN 0
        ELSE IF len_not_null < max_len THEN len_not_null
        ELSE max_len

\* pd.cut(series, n_bins, labels=range(1, n_bins + 1)) for one value x of a
\* series of least value mn and greatest value mx: n_bins intervals of equal
\* width, closed on the right, the first one widened to hold mn.  When all
\* the values are equal the range is widened by a thousandth on both sides and
\* x lies in the middle: on an edge when n_bins is even, where rounding
\* decides (up) on which side it falls.
cut(x, mn, mx, n_bins, up) ==
    IF mn = mx
    THEN IF n_bins % 2 = 1 THEN (n_bins + 1) \div 2
         ELSE IF up THEN n_bins \div 2 + 1 ELSE n_bins \div 2
    ELSE LET fits == {k \in 1..n_bins : (x - mn) * n_bins <= k * (mx - mn)}
         IN  CHOOSE k \in fits : \A j \in fits : k <= j

\* get_color_ts: the mapping from the weeks of the range to the severity.
\* now is the value of pd.to_datetime("now").
get_color_ts(samples, dateStart, dateEnd, now, up) ==
    LET weekly           == IF samples = NoSamples THEN <<>>
                            ELSE resample_mean(samples)
        date_range_start == get_last_sunday(dateStart)
        end              == IF isna(dateEnd) THEN now ELSE dateEnd
        dates            == date_range(date_range_start, end)
        norm             == [k \in 1..Len(dates) |->
                                IF dates[k] \in DOMAIN weekly
                                THEN weekly[dates[k]] ELSE NaNInt]
        n_bins           == get_n_bins(norm, LenColors)
        observed         == {norm[k] : k \in {j \in 1..Len(norm) : norm[j] # NaNInt}}
        mn               == CHOOSE x \in observed : \A y \in observed : x <= y
        signal_strength(k) ==
            IF n_bins = 0 THEN "0"
            ELSE IF n_bins = 1 THEN "1"
            \* astype("str") turns a missing category into "nan", which
            \* isna() of line 316 does not match
            ELSE IF norm[k] = NaNInt THEN "nan"
            ELSE ToString(cut(norm[k], mn, latest(observed), n_bins, up))
    IN  [date \in {dates[k] : k \in 1..Len(dates)} |->
            signal_strength(CHOOSE k \in 1..Len(dates) : dates[k] = date)]

\* get_samples_in_interval.  With both bounds given, line 233 reads
\* dateStart & samples[...] before any comparison, which raises.
get_samples_in_interval(samples, dateStart, dateEnd) ==
    LET kept(test(_)) ==
            [outcome |-> "ok",
             samples |-> Frame(samples.cols,
                               SelectSeq(samples.rows,
                                         LAMBDA row : /\ ~isna(row["Sample.plotDate"])
                                                      /\ test(row["Sample.plotDate"])))]
        before(t) == t <= dateEnd
        after(t)  == t >= dateStart
    IN  IF isna(dateStart) /\ isna(dateEnd) THEN [outcome |-> "ok", samples |-> samples]
        ELSE IF isna(dateStart) THEN kept(before)
        ELSE IF isna(dateEnd) THEN kept(after)
        ELSE [outcome |-> "raised"]

\* get_samples_to_plot
get_samples_to_plot(samples, cm) ==
    IF cm = NoCm THEN NoSamples
    ELSE Frame(samples.cols,
               SelectSeq(samples.rows,
                         LAMBDA row : str_contains(row["Sample.collection"], cm)))

\* get_site_geoJSON for one site: the samples its signal is made of and the
\* mapping from week to severity, for each value get_cm_to_plot can return
get_site_geoJSON(combined, dateStart, dateEnd, now, up) ==
    LET with_date        == set_column(combined, "Sample.plotDate",
                                       get_plot_datetime(combined))
        samples_in_range == get_samples_in_interval(with_date, dateStart, dateEnd)
    IN  IF samples_in_range.outcome = "raised" THEN {[outcome |-> "raised"]}
        ELSE {[outcome         |-> "ok",
               samples_to_plot |-> get_samples_to_plot(samples_in_range.samples, cm),
               date_color_dict |->
                   get_color_ts(get_samples_to_plot(samples_in_range.samples, cm),
                                dateStart, dateEnd, now, up)] :
                 cm \in get_cm_to_plot(samples_in_range.samples, ThreshN)}

(***************************************************************************)
(* The signal machine: a call is drawn, then made.                         *)
(***************************************************************************)
\* Sample.collection values: a grab, a composite and a passive sample
Collections == {"grb", "cpTP24h", "ps"}

TimeVals == {NaT} \cup {2 * k - 1 : k \in 1..MaxTimes}

PlotCols == <<"Sample.collection", "Sample.dateTime",
              "Sample.dateTimeStart", "Sample.dateTimeEnd">>

PlotRows ==
    {[c \in {PlotCols[k] : k \in 1..Len(PlotCols)} |->
        IF c = "Sample.collection" THEN collection
        ELSE IF c = "Sample.dateTime" THEN t[1]
        ELSE IF c = "Sample.dateTimeStart" THEN t[2] ELSE t[3]] :
        collection \in Collections, t \in [1..3 -> TimeVals]}

\* the calls of get_plot_datetime on a frame of n rows
PlotDatetimeCalls(n) ==
    {[op |-> "get_plot_datetime", df |-> Frame(PlotCols, rows)] :
        rows \in [1..n -> PlotRows]}

\* the samples taken with one collection method: n of them, the dated ones
\* with plot timestamp last_date, one of them without any date when undated
SamplesOf(collection, n, last_date, undated) ==
    [i \in 1..n |->
        [c \in {PlotCols[k] : k \in 1..Len(PlotCols)} |->
            IF c = "Sample.collection" THEN collection
            ELSE IF undated /\ i = 1 THEN NaT
            ELSE IF c = "Sample.dateTime" /\ collection = "grb" THEN last_date
            ELSE IF c = "Sample.dateTimeEnd" /\ collection # "grb" THEN last_date
            ELSE NaT]]

SampleCounts == {0, 1, ThreshN}

MethodSamples(collection) ==
    {SamplesOf(collection, n, last_date, undated) :
        n \in SampleCounts, last_date \in TimeVals \ {NaT}, undated \in BOOLEAN}

CmToPlotCalls ==
    {[op |-> "get_cm_to_plot", samples |-> Frame(PlotCols, ps \o cp \o grb)] :
        ps \in MethodSamples("ps"), cp \in MethodSamples("cpTP24h"),
        grb \in MethodSamples("grb")}

GetCmToPlot ==
    /\ sig.op = "get_cm_to_plot"
    /\ "ret" \notin DOMAIN sig
    /\ \E cm \in get_cm_to_plot(sig.samples, ThreshN) : sig' = sig @@ [ret |-> cm]
    /\ UNCHANGED <<storeVars, pivot, sampleVars, db>>

\* the first week that holds samples in the calls of get_color_ts
FirstDataWeek == get_last_sunday(DEFAULT_START_DATE)

\* the current time of the calls
Now == FirstDataWeek + 7 * MaxWeeks

\* the ratios observed
NormVals == {1, 2}

ColorCols == <<"Sample.plotDate", "norm">>

\* samples with one ratio at most in each of MaxWeeks weeks, taken on the
\* Sunday that starts the week
ColorSamples ==
    {NoSamples} \cup
    {Frame(ColorCols,
           LET weeks == SelectSeq([w \in 1..MaxWeeks |-> w], LAMBDA w : norms[w] # NaNInt)
           IN  [k \in 1..Len(weeks) |->
                   [c \in {"Sample.plotDate", "norm"} |->
                       IF c = "norm" THEN norms[weeks[k]]
                       ELSE FirstDataWeek + 7 * (weeks[k] - 1)]]) :
        norms \in [1..MaxWeeks -> NormVals \cup {NaNInt}] \ {[w \in 1..MaxWeeks |-> NaNInt]}}

ColorTsCalls ==
    {[op |-> "get_color_ts", samples |-> samples, dateStart |-> dateStart,
      dateEnd |-> dateEnd, now |-> Now] :
        samples \in ColorSamples,
        dateStart \in {NaT, DEFAULT_START_DATE},
        dateEnd \in {NaT, Now - 7}}

GetColorTs ==
    /\ sig.op = "get_color_ts"
    /\ "ret" \notin DOMAIN sig
    /\ \E up \in BOOLEAN :
           sig' = sig @@ [ret |-> get_color_ts(sig.samples, sig.dateStart,
                                               sig.dateEnd, sig.now, up)]
    /\ UNCHANGED <<storeVars, pivot, sampleVars, db>>

\* the days on which the samples of a site were grabbed: in the week before
\* DEFAULT_START_DATE, on that date, a week later, and now
SampleDays == <<DEFAULT_START_DATE - 7, DEFAULT_START_DATE, DEFAULT_START_DATE + 7, Now>>

SiteCols == PlotCols \o <<"norm">>

SiteSamples ==
    {Frame(SiteCols,
           LET days == SelectSeq(SampleDays, LAMBDA d : d \in taken)
           IN  [k \in 1..Len(days) |->
                   [c \in {SiteCols[j] : j \in 1..Len(SiteCols)} |->
                       IF c = "Sample.collection" THEN "grb"
                       ELSE IF c = "Sample.dateTime" THEN days[k]
                       ELSE IF c = "norm" THEN 1
                       ELSE NaT]]) :
        taken \in SUBSET {SampleDays[k] : k \in 1..Len(SampleDays)}}

SiteGeoJSONCalls ==
    {[op |-> "get_site_geoJSON", combined |-> combined, dateStart |-> dateStart,
      dateEnd |-> dateEnd, now |-> Now] :
        combined \in SiteSamples,
        dateStart \in {NaT, DEFAULT_START_DATE},
        dateEnd \in {NaT, DEFAULT_START_DATE + 7}}

GetSiteGeoJSON ==
    /\ sig.op = "get_site_geoJSON"
    /\ "ret" \notin DOMAIN sig
    /\ \E up \in BOOLEAN :
           \E ret \in get_site_geoJSON(sig.combined, sig.dateStart, sig.dateEnd,
                                       sig.now, up) :
               sig' = sig @@ [ret |-> ret]
    /\ UNCHANGED <<storeVars, pivot, sampleVars, db>>

GetPlotDatetime ==
    /\ sig.op = "get_plot_datetime"
    /\ "ret" \notin DOMAIN sig
    /\ sig' = sig @@ [ret |-> get_plot_datetime(sig.df)]
    /\ UNCHANGED <<storeVars, pivot, sampleVars, db>>

SignalInit ==
    \/ \E n \in 1..MaxPlotRows : sig \in PlotDatetimeCalls(n)
    \/ sig \in CmToPlotCalls \cup ColorTsCalls \cup SiteGeoJSONCalls

(***************************************************************************)
(* The export machine: Odm.to_sqlite3 and create_db.  The store file is    *)
(* absent, empty (created by sqlite3.connect, no table in it) or holds the *)
(* tables of the schema.                                                   *)
(***************************************************************************)
\* the attributes of the store that the calls are made on
ExportAttrs == SubSeq(Attrs, 1, MaxSaved)

ExportSet == {ExportAttrs[i] : i \in 1..Len(ExportAttrs)}

\* the members of a set of attributes, in the order of self.__dict__
in_order(attrs) == SelectSeq(ExportAttrs, LAMBDA a : a \in attrs)

\* what requests.get(url) does: it raises (no network), returns a page that
\* is no script (an HTTP error page), or returns the schema script
Fetches == {"raises", "no script", "script"}

ExportCalls ==
    [pc            : {"to_sqlite3"},
     exists        : BOOLEAN,
     fetch         : Fetches,
     nonempty      : SUBSET ExportSet,
     attrs_to_save : {[none |-> TRUE, list |-> <<>>]}
                         \cup {[none |-> FALSE, list |-> in_order(attrs)] :
                                  attrs \in SUBSET ExportSet}]

ExportInit ==
    \E call \in ExportCalls :
        db = [pc            |-> "to_sqlite3",
              fetch         |-> call.fetch,
              nonempty      |-> call.nonempty,
              attrs_to_save |-> call.attrs_to_save,
              existed       |-> call.exists,
              file          |-> IF call.exists THEN "schema" ELSE "absent",
              con           |-> "none",
              i             |-> 1,
              upserted      |-> <<>>,
              closed_after  |-> <<>>,
              error         |-> "none"]

\* to_sqlite3, lines 618-626: the list of tables, the test of the file
ToSqlite3 ==
    /\ db.pc = "to_sqlite3"
    /\ db' = [db EXCEPT
                !.attrs_to_save = IF @.none
                                  THEN [none |-> FALSE, list |-> in_order(db.nonempty)]
                                  ELSE @,
                !.pc = IF db.file = "absent" THEN "create_db" ELSE "connect"]
    /\ UNCHANGED <<storeVars, pivot, sampleVars, sig>>

\* create_db: requests.get is called before the try statement, so what it
\* raises leaves create_db and to_sqlite3; a script that fails is caught, after
\* sqlite3.connect has created the file
CreateDb ==
    /\ db.pc = "create_db"
    /\ db' = IF db.fetch = "raises"
             THEN [db EXCEPT !.pc = "raised", !.error = "ConnectionError"]
             ELSE [db EXCEPT !.pc = "connect",
                             !.file = IF db.fetch = "script" THEN "schema" ELSE "empty"]
    /\ UNCHANGED <<storeVars, pivot, sampleVars, sig>>

\* con = sqlite3.connect(filepath)
Connect ==
    /\ db.pc = "connect"
    /\ db' = [db EXCEPT !.pc = "loop", !.con = "open"]
    /\ UNCHANGED <<storeVars, pivot, sampleVars, sig>>

\* one turn of the loop of lines 628-647, or the return after the last one
SaveTable ==
    /\ db.pc = "loop"
    /\ LET attr == db.attrs_to_save.list[db.i]
       IN  db' =
             IF db.i > Len(db.attrs_to_save.list) THEN [db EXCEPT !.pc = "done"]
             ELSE IF attr \notin db.nonempty THEN [db EXCEPT !.i = @ + 1]
             \* df.to_sql on a closed connection
             ELSE IF db.con = "closed"
             THEN [db EXCEPT !.pc = "raised", !.error = "ProgrammingError"]
             \* REPLACE INTO a table that the file does not hold
             ELSE IF db.file # "schema"
             THEN [db EXCEPT !.pc = "raised", !.error = "OperationalError"]
             ELSE [db EXCEPT !.upserted = Append(@, attr),
                             !.con = "closed",
                             !.closed_after = Append(@, attr),
                             !.i = @ + 1]
    /\ UNCHANGED <<storeVars, pivot, sampleVars, sig>>

InitSample ==
    StoreInit /\ pivot = PivotIdle /\ SampleInit /\ sig = SigIdle /\ db = DbIdle

NextSample == CombineCall \/ ParseSampleRow \/ ParseSampleReturn \/ CombineReturn

SpecSample == InitSample /\ [][NextSample]_vars

Init ==
    /\ StoreInit
    /\ pivot = PivotIdle
    /\ odm = OdmIdle
    /\ run = RunIdle
    /\ sig = SigIdle
    /\ db = DbIdle

Next == AppendFrom \/ LoadFrom

Spec == Init /\ [][Next]_vars

InitPivot ==
    /\ StoreInit
    /\ PivotInit
    /\ odm = OdmIdle
    /\ run = RunIdle
    /\ sig = SigIdle
    /\ db = DbIdle

NextPivot == Widen

SpecPivot == InitPivot /\ [][NextPivot]_vars

InitSignal ==
    /\ StoreInit
    /\ pivot = PivotIdle
    /\ odm = OdmIdle
    /\ run = RunIdle
    /\ SignalInit
    /\ db = DbIdle

NextSignal == GetPlotDatetime \/ GetCmToPlot \/ GetColorTs \/ GetSiteGeoJSON

SpecSignal == InitSignal /\ [][NextSignal]_vars

InitExport ==
    /\ StoreInit
    /\ pivot = PivotIdle
    /\ odm = OdmIdle
    /\ run = RunIdle
    /\ sig = SigIdle
    /\ ExportInit

NextExport == ToSqlite3 \/ CreateDb \/ Connect \/ SaveTable

SpecExport == InitExport /\ [][NextExport]_vars

(***************************************************************************)
(* Properties of the store machine                                         *)
(***************************************************************************)
RowSet(df) == {df.rows[i] : i \in 1..Len(df.rows)}

RowSets(self) == [a \in AttrSet |-> RowSet(self[a])]

NoDuplicateRows(df) ==
    \A i, j \in 1..Len(df.rows) : df.rows[i] = df.rows[j] => i = j

\* every table of the source is a DataFrame of hashable rows
WellFormed(mapper) ==
    \A a \in AttrSet : ~mapper.tables[a].none /\ Hashable(mapper.tables[a].rows)

\* C1: an append_from whose source answers validates() = FALSE ends in the
\* "invalid data" error (ValueError) and leaves all ten tables as they were.
C1_InvalidAppendRejected ==
    [][(last'.op = "append" /\ last'.kind = "invalid")
          => (last'.outcome = "ValueError" /\ store' = store)]_vars

\* C1 witness: an invalid source was just rejected by a store that holds rows,
\* and some invalid source holds rows that the loop would have merged.
C1_Witness ==
    /\ last = [op |-> "append", kind |-> "invalid", outcome |-> "ValueError"]
    /\ \E a \in AttrSet : ~store[a].none /\ ~empty(store[a])
    /\ \E m \in Mappers :
          /\ m.kind = "invalid" /\ HasRows(m)
          /\ append_tables(store, m, 1).store # store
          /\ append_from(store, m).store = store

\* C2 (as claimed): an append_from that fails leaves every one of the ten
\* tables equal to its value before the call.
C2_FailedAppendLeavesStore ==
    [][(last'.op = "append" /\ last'.outcome # "ok") => store' = store]_vars

\* C3 (as claimed): in a store built from Odm() by append_from alone, no table
\* holds two rows that are equal in every column.
C3_NoDuplicatesAfterAppends ==
    onlyAppends => \A a \in AttrSet : NoDuplicateRows(store[a])

\* C4: append idempotence.  In every store reached by an append, appending any
\* valid source twice leaves each table with the same set of rows as appending
\* it once.
C4_AppendIdempotent ==
    last.op = "append" =>
        \A m \in Mappers :
            validates(m) =>
                LET once  == append_from(store, m)
                    twice == append_from(once.store, m)
                IN  RowSets(twice.store) = RowSets(once.store)

\* C4 witness: a store reached by an append and a valid source for which the
\* second append is not a no-op on the frames (it removes duplicate rows that
\* the first append let in) although the row sets agree.
C4_Witness ==
    /\ last.op = "append" /\ last.outcome = "ok"
    /\ \E m \in Mappers :
          /\ validates(m) /\ HasRows(m)
          /\ LET once  == append_from(store, m)
                 twice == append_from(once.store, m)
             IN  /\ once.outcome = "ok" /\ twice.outcome = "ok"
                 /\ once.store # store
                 /\ twice.store # once.store

\* C5 (as claimed): load_from with a source whose validates() is FALSE fails
\* (it does not return normally) and leaves the store unchanged; load_from
\* with a valid source replaces every table by the source's table with its
\* exact-duplicate rows removed.
C5_LoadValidatesOrFails ==
    /\ [][(last'.op = "load" /\ last'.kind = "invalid")
            => (last'.outcome # "ok" /\ store' = store)]_vars
    /\ [](\A m \in Mappers :
            (m.kind = "valid" /\ WellFormed(m)) =>
                load_from(store, m) =
                    [store   |-> [a \in AttrSet |->
                                    DataFrame(drop_duplicates(m.tables[a].rows))],
                     outcome |-> "ok"])

(***************************************************************************)
(* Properties of the pivot machine                                         *)
(***************************************************************************)
\* the qualifier values of a row of the call's table, blank and missing ones
\* read as "unknown-<qualifier>"
QualifierTuple(i) ==
    [j \in 1..Len(pivot.qualifiers) |->
        clean_qualifier(pivot.qualifiers[j], pivot.df.rows[i][pivot.qualifiers[j]])]

\* the combination key of a row: its qualifier values joined by "_"
PivotKey(i) == join("_", QualifierTuple(i))

PivotRowIds == 1..Len(pivot.df.rows)

Derived(k, f) == k \o "_" \o f

PivotReturned == pivot.pc = "done" /\ ~frame_empty(pivot.df)

\* C7: pivot exclusivity and round trip.  For every row r with combination key
\* k and every feature f, the pivoted row r holds r's original value of f in
\* column "k_f" and is unset in every other derived column "k'_f".
C7_PivotExclusive ==
    PivotReturned =>
        \A i \in PivotRowIds, j \in 1..Len(pivot.features) :
            LET f == pivot.features[j]
            IN  /\ i \in 1..Len(pivot.out.rows)
                /\ Derived(PivotKey(i), f) \in ColSet(pivot.out)
                /\ pivot.out.rows[i][Derived(PivotKey(i), f)] = pivot.df.rows[i][f]
                /\ \A i2 \in PivotRowIds :
                      PivotKey(i2) # PivotKey(i) =>
                          /\ Derived(PivotKey(i2), f) \in ColSet(pivot.out)
                          /\ pivot.out.rows[i][Derived(PivotKey(i2), f)] = NaN

\* C7 witness: two rows with different keys, both with a value, one of them
\* with a missing qualifier, were pivoted on two features.
C7_Witness ==
    /\ PivotReturned
    /\ Len(pivot.df.rows) = 2 /\ Len(pivot.features) = 2
    /\ PivotKey(1) # PivotKey(2)
    /\ pivot.df.rows[1]["value"] = "1" /\ pivot.df.rows[2]["value"] = "2"
    /\ pivot.df.rows[1]["unit"] = NaN
    /\ pivot.out.rows[1][Derived(PivotKey(1), "value")] = "1"
    /\ pivot.out.rows[1][Derived(PivotKey(2), "value")] = NaN

\* C8 (as claimed): the pivot keeps the number of rows and returns
\* columns - |features| - |qualifiers| + |distinct qualifier tuples| * |features|
\* columns, whatever the tuples join to and whatever columns exist already.
C8_PivotShape ==
    PivotReturned =>
        /\ Len(pivot.out.rows) = Len(pivot.df.rows)
        /\ Len(pivot.out.cols) =
              Len(pivot.df.cols) - Len(pivot.features) - Len(pivot.qualifiers)
                + Cardinality({QualifierTuple(i) : i \in PivotRowIds})
                    * Len(pivot.features)

(***************************************************************************)
(* Properties of the consolidation machine                                 *)
(***************************************************************************)
\* the site identifiers that a siteID cell names
site_ids_named(sites) == site_id_set(sites) \ {<<>>}

\* _parse_sample has returned its table to combine_per_sample
SampleParsed == run.pc = "combine"

\* the rows of the parsed table that came from row i of the Sample table
ParsedFrom(i) ==
    SelectSeq(run.df.rows, LAMBDA r : r["Sample.sampleID"] = run.before.sample.rows[i]["sampleID"])

\* row r of the parsed table is row i of the Sample table with this siteID
CopyWithSite(r, i, site) ==
    r = add_prefix(Frame(SampleCols,
                         <<[run.before.sample.rows[i] EXCEPT !["siteID"] = site]>>),
                   "Sample.").rows[1]

\* C6 (as claimed): when combine_per_sample has returned a table, every table
\* of the store is what it was at the call, and a second call on the store
\* returns what the first returned.
C6_CombineReadOnly ==
    (run.pc = "done" /\ run.results[Len(run.results)].outcome = "ok") =>
        /\ odm = run.before
        /\ \A k \in 1..Len(run.results) : run.results[k] = run.results[1]

\* C9 (as claimed): the parsed Sample table holds, for every row of the Sample
\* table without ';' in its siteID, that row unchanged and no other row of the
\* sample, and for every row whose siteID lists n >= 1 distinct identifiers
\* separated by ';', exactly n rows, one per identifier, each the row with
\* that identifier as its siteID.
C9_FanOutCount ==
    SampleParsed =>
        \A i \in 1..Len(run.before.sample.rows) :
            LET sites == run.before.sample.rows[i]["siteID"]
                named == site_ids_named(sites)
                out   == ParsedFrom(i)
            IN  IF ~has_char(sites, ";")
                THEN Len(out) = 1 /\ CopyWithSite(out[1], i, sites)
                ELSE named # {} =>
                        /\ Len(out) = Cardinality(named)
                        /\ \A site \in named :
                               \E k \in 1..Len(out) : CopyWithSite(out[k], i, site)

\* C10 (as claimed): when every siteID of the Sample table names at least one
\* site, every row of the parsed Sample table has a Sample.siteID that holds no
\* ';' and is not the empty string.
C10_SingleSite ==
    (/\ SampleParsed
     /\ \A i \in 1..Len(run.before.sample.rows) :
            site_ids_named(run.before.sample.rows[i]["siteID"]) # {})
    => \A k \in 1..Len(run.df.rows) :
           /\ ~has_char(run.df.rows[k]["Sample.siteID"], ";")
           /\ run.df.rows[k]["Sample.siteID"] # <<>>

\* the last call of combine_per_sample has returned a table
Returned == run.pc = "done" /\ run.results[Len(run.results)].outcome = "ok"

\* C11 (as claimed): a call of combine_per_sample on a store whose Sample table
\* has rows returns a table, whichever of the WWMeasure, SiteMeasure, Site and
\* Polygon tables are empty.
C11_EmptyTolerant ==
    (run.pc = "done" /\ ~frame_empty(run.before.sample)) =>
        run.results[Len(run.results)].outcome = "ok"

\* the table that reaches combine_sample_site_measure, and its other argument
Merged1 ==
    combine_ww_measure_and_sample(
        agg_ww_measure_per_sample(parse_ww_measure(odm.ww_measure)), run.df)

SiteMeasureParsed == parse_site_measure(odm.site_measure)

\* the rows of site_measure whose dateTime lies in the closed interval of row l
InInterval(site_measure, l) ==
    {k \in 1..Len(site_measure.rows) :
        /\ l["Sample.dateTimeStart"] <= site_measure.rows[k]["SiteMeasure.dateTime"]
        /\ site_measure.rows[k]["SiteMeasure.dateTime"] <= l["Sample.dateTimeEnd"]}

\* the rows of the joined table that carry the sample row l
JoinedTo(out, l) ==
    {j \in 1..Len(out.rows) : \A c \in DOMAIN l : out.rows[j][c] = l[c]}

\* C12: interval join.  When the parsed samples and the parsed site measures
\* both have rows, the joined table holds, for every sample row, one row per
\* site measure whose dateTime lies in [dateTimeStart, dateTimeEnd], both ends
\* included, and no other; a sample row without such a site measure is held
\* once, with the site measure columns missing.
C12_IntervalJoin ==
    (SampleParsed /\ ~frame_empty(run.df) /\ ~frame_empty(odm.site_measure)) =>
        LET sample       == Merged1
            site_measure == SiteMeasureParsed
            out          == combine_sample_site_measure(sample, site_measure)
        IN  \A i \in 1..Len(sample.rows) :
                LET l       == sample.rows[i]
                    matched == InInterval(site_measure, l)
                    rows    == JoinedTo(out, l)
                IN  /\ \A k \in matched :
                           Cardinality({j \in rows :
                               \A c \in ColSet(site_measure) :
                                   out.rows[j][c] = site_measure.rows[k][c]}) = 1
                    /\ Cardinality(rows) =
                           IF matched = {} THEN 1 ELSE Cardinality(matched)
                    /\ matched = {} =>
                           \A j \in rows, c \in ColSet(site_measure) :
                               out.rows[j][c] = missing(c)

\* C12 witness: the join is about to run on a sample row that a site measure
\* meets at its start and another at its end, and a sample row that none meets.
C12_Witness ==
    /\ SampleParsed
    /\ ~frame_empty(run.df)
    /\ ~frame_empty(odm.site_measure)
    /\ LET sample       == Merged1
           site_measure == SiteMeasureParsed
       IN  \E i, j \in 1..Len(sample.rows) :
               /\ \E k \in InInterval(site_measure, sample.rows[i]) :
                      site_measure.rows[k]["SiteMeasure.dateTime"]
                          = sample.rows[i]["Sample.dateTimeStart"]
               /\ \E k \in InInterval(site_measure, sample.rows[i]) :
                      site_measure.rows[k]["SiteMeasure.dateTime"]
                          = sample.rows[i]["Sample.dateTimeEnd"]
               /\ InInterval(site_measure, sample.rows[j]) = {}

\* the polygons of the store whose wkt is well formed and holds the point
Encompassing(lat, long) ==
    SelectSeq(odm.polygon.rows,
              LAMBDA p : /\ p["wkt"] \in DOMAIN WktRegions
                         /\ <<lat, long>> \in WktRegions[p["wkt"]])

\* the store holds a polygon whose wkt is malformed
MalformedPolygon(self) ==
    \E k \in 1..Len(self.polygon.rows) :
        self.polygon.rows[k]["wkt"] \notin DOMAIN WktRegions

\* C13: a call of combine_per_sample on a store with samples, sites and a
\* polygon of malformed wkt returns a table, and the polygonIDs of each row of
\* a returned table is the ';'-joined list of the polygons of well-formed wkt
\* whose region holds the point of the row: the malformed polygon is in none.
C13_MalformedPolygonSkipped ==
    /\ (/\ run.pc = "done"
        /\ MalformedPolygon(run.before)
        /\ ~frame_empty(run.before.sample)
        /\ ~frame_empty(run.before.site)) =>
           run.results[Len(run.results)].outcome = "ok"
    /\ Returned =>
           LET merged == run.results[Len(run.results)].merged
           IN  \A i \in 1..Len(merged.rows) :
                   LET inside == Encompassing(merged.rows[i]["Site.geoLat"],
                                              merged.rows[i]["Site.geoLong"])
                   IN  merged.rows[i]["polygonIDs"] =
                           join(";", [k \in 1..Len(inside) |-> inside[k]["polygonID"]])

\* C13 witness: a table was returned from a store that holds a polygon of
\* malformed wkt, and one of its rows lies in a well-formed polygon.
C13_Witness ==
    /\ Returned
    /\ MalformedPolygon(odm)
    /\ \E i \in 1..Len(run.results[Len(run.results)].merged.rows) :
           run.results[Len(run.results)].merged.rows[i]["polygonIDs"] # ""

(***************************************************************************)
(* Properties of the signal machine                                        *)
(***************************************************************************)
SigReturned(op) == sig.op = op /\ "ret" \in DOMAIN sig

\* C18 (as claimed): the plot timestamp of a grab sample is its dateTime,
\* whatever its dateTimeStart and dateTimeEnd hold; that of another sample is
\* the midpoint of start and end when it has both, its end when it has only
\* an end, and missing otherwise.
C18_PlotDatetime ==
    SigReturned("get_plot_datetime") =>
        \A i \in 1..Len(sig.df.rows) :
            LET row == sig.df.rows[i]
            IN  sig.ret[i] =
                    IF str_contains(row["Sample.collection"], "grb")
                    THEN row["Sample.dateTime"]
                    ELSE IF ~isna(row["Sample.dateTimeStart"])
                            /\ ~isna(row["Sample.dateTimeEnd"])
                    THEN get_midpoint_time(row["Sample.dateTimeStart"],
                                           row["Sample.dateTimeEnd"])
                    ELSE IF ~isna(row["Sample.dateTimeEnd"])
                    THEN row["Sample.dateTimeEnd"]
                    ELSE NaT

\* the plot timestamps of the dated samples taken with collection method cm
DatedOf(samples, cm) ==
    LET plotDate == get_plot_datetime(samples)
    IN  {plotDate[i] : i \in {j \in 1..Len(samples.rows) :
                                 /\ str_contains(samples.rows[j]["Sample.collection"], cm)
                                 /\ ~isna(plotDate[j])}}

CountOf(samples, cm) ==
    Cardinality({j \in 1..Len(samples.rows) :
                    str_contains(samples.rows[j]["Sample.collection"], cm)})

\* C17 (as claimed): with threshold 7, get_cm_to_plot returns, among the
\* methods ps, cp and grb that have a dated sample, one of latest plot
\* timestamp among those with 7 samples or more; when none of them has 7
\* samples, one of latest plot timestamp among them all; when no method has a
\* dated sample, None.
C17_CmToPlot ==
    SigReturned("get_cm_to_plot") =>
        LET cms      == {possible_cms[k] : k \in 1..Len(possible_cms)}
            dated    == {cm \in cms : DatedOf(sig.samples, cm) # {}}
            enough   == {cm \in dated : CountOf(sig.samples, cm) >= ThreshN}
            eligible == IF enough = {} THEN dated ELSE enough
        IN  IF eligible = {} THEN sig.ret = NoCm
            ELSE /\ sig.ret \in eligible
                 /\ \A cm \in eligible :
                        latest(DatedOf(sig.samples, cm))
                            <= latest(DatedOf(sig.samples, sig.ret))

\* the ratio observed in the week that starts on date, if any
ObservedIn(samples, date) ==
    /\ samples # NoSamples
    /\ \E i \in 1..Len(samples.rows) :
           /\ get_last_sunday(samples.rows[i]["Sample.plotDate"]) = date
           /\ samples.rows[i]["norm"] # NaNInt

\* C14 (as claimed): every severity of the mapping that get_color_ts returns
\* is one of "0", "1", "2", "3", "4", "5".
C14_SeverityRange ==
    SigReturned("get_color_ts") =>
        \A date \in DOMAIN sig.ret : sig.ret[date] \in {"0", "1", "2", "3", "4", "5"}

\* C15 (as claimed): in the mapping that get_color_ts returns, a week has
\* severity "0" exactly when no ratio was observed in it; so without samples
\* every week has "0", and with one week of data that week has "1" and every
\* other week "0".
C15_ZeroIffNoData ==
    SigReturned("get_color_ts") =>
        \A date \in DOMAIN sig.ret :
            sig.ret[date] = "0" <=> ~ObservedIn(sig.samples, date)

\* the window of a call: the bounds given, 2021-01-01 and now by default
WindowStart == IF isna(sig.dateStart) THEN DEFAULT_START_DATE ELSE sig.dateStart

WindowEnd == IF isna(sig.dateEnd) THEN sig.now ELSE sig.dateEnd

\* C19 (as claimed): the samples that the signal of a site is made of are
\* those of plot timestamp t with dateStart <= t < dateEnd, where dateStart is
\* 2021-01-01 and dateEnd the current time when the caller gives none, and
\* the weeks of the mapping start at the Sunday on or before that dateStart.
C19_Window ==
    SigReturned("get_site_geoJSON") =>
        /\ sig.ret.outcome = "ok"
        /\ LET used == IF sig.ret.samples_to_plot = NoSamples THEN {}
                       ELSE {sig.ret.samples_to_plot.rows[i]["Sample.dateTime"] :
                                i \in 1..Len(sig.ret.samples_to_plot.rows)}
           IN  used = {SampleDays[k] : k \in {j \in 1..Len(SampleDays) :
                          /\ \E i \in 1..Len(sig.combined.rows) :
                                 sig.combined.rows[i]["Sample.dateTime"] = SampleDays[j]
                          /\ WindowStart <= SampleDays[j]
                          /\ SampleDays[j] < WindowEnd}}
        /\ \A date \in DOMAIN sig.ret.date_color_dict :
               date >= get_last_sunday(WindowStart)
        /\ WindowStart <= WindowEnd =>
               get_last_sunday(WindowStart) \in DOMAIN sig.ret.date_color_dict

(***************************************************************************)
(* Properties of the export machine                                        *)
(***************************************************************************)
\* the call of to_sqlite3 is over: it returned or raised
ExportOver == db.pc \in {"done", "raised"}

\* the non-empty tables selected for saving, in the order of the loop
Selected == SelectSeq(db.attrs_to_save.list, LAMBDA a : a \in db.nonempty)

\* C16 (as claimed): when the store file is absent and fetching the schema
\* script fails, nothing is raised to the caller of to_sqlite3 and no file is
\* created.
C16_FetchFailureCaught ==
    (ExportOver /\ ~db.existed /\ db.fetch # "script") =>
        /\ db.error # "ConnectionError"
        /\ db.file = "absent"

\* C20 (as claimed): a call of to_sqlite3 on a file that holds the schema,
\* with one or more non-empty tables selected, upserts each of them in turn
\* and returns, and the connection is closed after the last of them only.
C20_EveryTableWritten ==
    (ExportOver /\ db.file = "schema" /\ Len(Selected) >= 1) =>
        /\ db.pc = "done"
        /\ db.upserted = Selected
        /\ db.closed_after = <<Selected[Len(Selected)]>>

\* C21 (as claimed): a call of combine_per_sample on a store with samples,
\* sites and polygons returns a table whose index holds every sampleID of the
\* Sample table: the final removal of duplicates discards no sample, two
\* samples that differ in their sampleID only are both kept.
C21_NoSampleLost ==
    (/\ Returned
     /\ ~frame_empty(run.before.sample)
     /\ ~frame_empty(run.before.site)
     /\ ~frame_empty(run.before.polygon)) =>
        LET merged == run.results[Len(run.results)].merged
        IN  \A i \in 1..Len(run.before.sample.rows) :
                \E k \in 1..Len(merged.index) :
                    merged.index[k] = run.before.sample.rows[i]["sampleID"]

====
